---- MODULE Spec2Model ----
(***************************************************************************)
(* Order engine of the concession-stand bot: the store (MemoryStore and    *)
(* the durable DatabaseService behind the same calls), the bot handlers    *)
(* that drive it, and the delivery wizards of the two bot revisions.       *)
(*                                                                         *)
(* Every `await db.*` of a handler is one store round trip and one step    *)
(* of the model; handlers of different updates interleave between round    *)
(* trips.  A handler with a single round trip is one step.  Callback data  *)
(* is an input: any callback string that matches a handler's pattern is    *)
(* handled, whoever sends it and whenever.  An input that a handler only   *)
(* passes on to its last store call is drawn at that call.                 *)
(***************************************************************************)
EXTENDS Integers, Sequences, FiniteSets, TLC

\* ---- bounds ----
MaxOrders == 2
NumThreads == 2
NumCustomers == 1
MaxQty == 2
NumAccounts == 2
NumSellers == 3

Customers == 1..NumCustomers
Threads == 1..NumThreads
OrderIds == 1..MaxOrders
Sellers == 1..NumSellers

\* ---- program constants ----
\* two entries of the MemoryStore catalog: ids 1 and 3, prices 150 and 200
ProductIds == {1, 3}
Price(p) == IF p = 1 THEN 150 ELSE 200
Catalog == [p \in ProductIds |-> Price(p)]
\* unit prices a product may have
PriceInputs == {150, 200}
\* no entry under CACHE_KEYS.PRODUCTS
NoCache == [p \in ProductIds |-> 0]

Statuses == {"cart", "pending", "preparing", "ready_for_pickup", "completed", "cancelled"}
Locations == {"left_buffer", "right_buffer", "delivery"}

\* representation of JavaScript `undefined`
None == "none"
Undef == -1

\* inputs of the handlers
Quantities == 1..MaxQty
\* every quantity the digit patterns of confirm_qty / update_item_qty accept
AllQuantities == 0..MaxQty
SideInputs == {"left"}
SectorInputs == {1}
TextInputs == {"5"}

VARIABLES
  rev,              \* bot revision in service: "A" (DeliverySession wizard) or "B" (session flags)
  orders,           \* MemoryStore.orders: sequence indexed by order id
  orderItems,       \* MemoryStore.orderItems: order id -> line items
  deliverySessions, \* revision A: deliverySessions map
  sessions,         \* revision B: sessions map
  threads,          \* handler invocations in flight
  reply,            \* the answer of the handler that finished last: "ok" or "fail"
  success,          \* take_order / take_delivery: the result each racing seller got
  products,         \* the catalog: product id -> price
  cache,            \* the cached product list (CACHE_KEYS.PRODUCTS): prices, or NoCache
  shown,            \* the order list the last staff query produced, and for whom
  users,            \* MemoryStore.users: account id -> stored role, or Absent
  http              \* the webhook function: its environment, its position, its last response

vars == <<rev, orders, orderItems, deliverySessions, sessions, threads, reply, success,
          products, cache, shown, users, http>>

nextOrderId == Len(orders) + 1

\* ---- values ----
NoDetails == [delivery_side |-> None, sector |-> Undef, seat_row |-> None, seat_number |-> None]

NoDeliverySession ==
  [step |-> "absent", side |-> None, sector |-> Undef, row |-> None, seat |-> None, orderId |-> 0]

EmptySession ==
  [delivery_side |-> None, delivery_sector |-> Undef, delivery_row |-> None,
   delivery_seat |-> None, waiting_for_row |-> FALSE, waiting_for_seat |-> FALSE]

\* account ids (Telegram user ids); account 1 is the customer who orders
Accounts == 1..NumAccounts

\* users.get(id) of an id the map does not hold
Absent == "absent"

\* private users = new Map<number, User>()
NoUsers == [a \in Accounts |-> Absent]

\* no staff query has been answered yet
NothingShown == [query |-> "none", role |-> "none", orders |-> <<>>]

IdleThread ==
  [pc |-> "idle", op |-> "none", user |-> 0, cart |-> 0, det |-> NoDetails]

\* JavaScript truthiness of a string / number field
TruthyStr(s) == s # None
TruthyNum(n) == n # Undef /\ n # 0

\* ---- MemoryStore ----
RECURSIVE SumItems(_)
SumItems(items) ==
  IF items = <<>> THEN 0
  ELSE Head(items).quantity * Head(items).price_at_time + SumItems(Tail(items))

\* an order total that is never recomputed
updateOrderTotalStale(ords, items, orderId) == ords

updateOrderTotal(ords, items, orderId) ==
  IF orderId \in DOMAIN ords
  THEN [ords EXCEPT ![orderId].total_amount = SumItems(items[orderId])]
  ELSE ords

FindItem(items, productId) ==
  {i \in 1..Len(items) : items[i].product_id = productId}

\* an add that always creates a new line item
addItemToOrderItemsAppend(items, orderId, productId, quantity, price) ==
  [items EXCEPT ![orderId] =
     Append(@, [product_id |-> productId, quantity |-> quantity, price_at_time |-> price])]

\* an add that overwrites the unit price of the line item it finds
addItemToOrderItemsReprice(items, orderId, productId, quantity, price) ==
  LET hit == FindItem(items[orderId], productId)
  IN IF hit # {}
     THEN [items EXCEPT ![orderId] =
             [i \in 1..Len(@) |-> IF i \in hit
                                  THEN [@[i] EXCEPT !.quantity = @ + quantity,
                                                    !.price_at_time = price]
                                  ELSE @[i]]]
     ELSE [items EXCEPT ![orderId] =
             Append(@, [product_id |-> productId, quantity |-> quantity,
                        price_at_time |-> price])]

addItemToOrderItems(items, orderId, productId, quantity, price) ==
  LET cur == items[orderId]
      hit == FindItem(cur, productId)
  IN IF hit # {}
     THEN LET i == CHOOSE k \in hit : \A j \in hit : k <= j
          IN [items EXCEPT ![orderId][i].quantity = @ + quantity]
     ELSE [items EXCEPT ![orderId] =
             Append(cur, [product_id |-> productId, quantity |-> quantity,
                          price_at_time |-> price])]

FindCart(ords, customerId) ==
  {o \in DOMAIN ords : ords[o].customer_id = customerId /\ ords[o].status = "cart"}

\* an order row as it is created; createdAt is the clock reading (new Date())
CartAt(customerId, createdAt) ==
  [customer_id |-> customerId, status |-> "cart", pickup_location |-> None,
   total_amount |-> 0, delivery_side |-> None, sector |-> Undef,
   seat_row |-> None, seat_number |-> None, created_at |-> createdAt]

\* the clock at the next creation: it never runs backwards, so the count of
\* orders created so far stands for its reading
Now == nextOrderId

NewCart(customerId) == CartAt(customerId, Now)

\* a status write that stores the destination argument even when it is missing
updateOrderStatusClearsLocation(ords, orderId, status, pickupLocation, deliveryDetails) ==
  IF orderId \notin DOMAIN ords THEN ords
  ELSE [ords EXCEPT ![orderId].status = status, ![orderId].pickup_location = pickupLocation]

updateOrderStatus(ords, orderId, status, pickupLocation, deliveryDetails) ==
  IF orderId \notin DOMAIN ords THEN ords
  ELSE LET o1 == [ords[orderId] EXCEPT !.status = status]
           o2 == IF TruthyStr(pickupLocation)
                 THEN [o1 EXCEPT !.pickup_location = pickupLocation] ELSE o1
           o3 == IF pickupLocation = "delivery"
                 THEN [o2 EXCEPT
                         !.delivery_side = IF TruthyStr(deliveryDetails.delivery_side)
                                           THEN deliveryDetails.delivery_side ELSE @,
                         !.sector = IF TruthyNum(deliveryDetails.sector)
                                    THEN deliveryDetails.sector ELSE @,
                         !.seat_row = IF TruthyStr(deliveryDetails.seat_row)
                                      THEN deliveryDetails.seat_row ELSE @,
                         !.seat_number = IF TruthyStr(deliveryDetails.seat_number)
                                         THEN deliveryDetails.seat_number ELSE @]
                 ELSE o2
       IN [ords EXCEPT ![orderId] = o3]

\* a status write that reports success for every order id
updateOrderStatusOkAlways(ords, orderId) == TRUE

updateOrderStatusOk(ords, orderId) == orderId \in DOMAIN ords

\* a status write that ignores the expected status
atomicStatusUpdateOkAnyStatus(ords, orderId, expectedStatus) ==
  orderId \in DOMAIN ords

atomicStatusUpdateOk(ords, orderId, expectedStatus) ==
  orderId \in DOMAIN ords /\ ords[orderId].status = expectedStatus

\* a status write that is carried out whatever the order's status is
atomicStatusUpdateAlwaysWrites(ords, orderId, expectedStatus, newStatus) ==
  IF orderId \in DOMAIN ords
  THEN [ords EXCEPT ![orderId].status = newStatus]
  ELSE ords

atomicStatusUpdate(ords, orderId, expectedStatus, newStatus) ==
  IF atomicStatusUpdateOk(ords, orderId, expectedStatus)
  THEN [ords EXCEPT ![orderId].status = newStatus]
  ELSE ords

\* ---- the durable backend's stored function ----
\* UPDATE orders SET status = new_status WHERE id = order_id AND status =
\* expected_status: the rows the statement matches
MatchedRows(ords, order_id, expected_status) ==
  {o \in DOMAIN ords : o = order_id /\ ords[o].status = expected_status}

\* GET DIAGNOSTICS updated_rows = ROW_COUNT; RETURN updated_rows > 0
atomic_status_update_returns(ords, order_id, expected_status) ==
  Cardinality(MatchedRows(ords, order_id, expected_status)) > 0

\* the orders table after the statement
atomic_status_update(ords, order_id, expected_status, new_status) ==
  [o \in DOMAIN ords |->
     IF o \in MatchedRows(ords, order_id, expected_status)
     THEN [ords[o] EXCEPT !.status = new_status]
     ELSE ords[o]]

\* ---- the durable schema's constraints ----
\* profiles.role CHECK (role IN ('customer', 'seller_left', 'seller_right'))
ProfilesRoleCheck(role) == role \in {"customer", "seller_left", "seller_right"}

\* orders.status CHECK (...) and orders.pickup_location CHECK (pickup_location
\* IN ('left_buffer', 'right_buffer')); a NULL passes a CHECK
OrdersCheck(row) ==
  /\ row.status \in Statuses
  /\ row.pickup_location = None \/ row.pickup_location \in {"left_buffer", "right_buffer"}

\* the orders table has the columns id, customer_id, status, pickup_location,
\* total_amount, created_at, updated_at: a row cannot carry coordinates
OrdersColumnsHold(row) ==
  /\ row.delivery_side = None
  /\ row.sector = Undef
  /\ row.seat_row = None
  /\ row.seat_number = None

\* ---- initial state ----
\* no webhook function deployed: the handlers are called directly
NoWebhook == [file |-> "none", secret |-> "undefined", pc |-> "none",
              method |-> "none", header |-> "undefined", status |-> 0]

InitBot ==
  /\ rev \in {"A", "B"}
  /\ orders = <<>>
  /\ orderItems = [o \in OrderIds |-> <<>>]
  /\ deliverySessions = [u \in Customers |-> NoDeliverySession]
  /\ sessions = [u \in Customers |-> EmptySession]
  /\ threads = [t \in Threads |-> IdleThread]
  /\ reply = "none"
  /\ success = [s \in Sellers |-> "none"]
  /\ products = Catalog
  /\ cache = NoCache
  /\ shown = NothingShown
  /\ users = NoUsers

Init == InitBot /\ http = NoWebhook

Idle(t) == threads[t].pc = "idle"

Finish(t, res) ==
  /\ threads' = [threads EXCEPT ![t] = IdleThread]
  /\ reply' = res

Answer(ok) == IF ok THEN "ok" ELSE "fail"

\* ---- staff handlers (one round trip each) ----
\* take_order and take_delivery: atomicStatusUpdate(orderId, 'pending', 'preparing')
Claim(orderId) ==
  /\ orders' = atomicStatusUpdate(orders, orderId, "pending", "preparing")
  /\ reply' = Answer(atomicStatusUpdateOk(orders, orderId, "pending"))
  /\ UNCHANGED <<rev, http, users, shown, products, cache, orderItems, deliverySessions, sessions, threads>>

TakeOrder(orderId) ==
  /\ Claim(orderId)
  /\ UNCHANGED success

ReadyOrder(orderId) ==
  /\ orders' = updateOrderStatus(orders, orderId, "ready_for_pickup", None, NoDetails)
  /\ reply' = Answer(updateOrderStatusOk(orders, orderId))
  /\ UNCHANGED <<rev, http, users, shown, products, cache, success, orderItems, deliverySessions, sessions, threads>>

CompleteOrder(orderId) ==
  /\ orders' = updateOrderStatus(orders, orderId, "completed", None, NoDetails)
  /\ reply' = Answer(updateOrderStatusOk(orders, orderId))
  /\ UNCHANGED <<rev, http, users, shown, products, cache, success, orderItems, deliverySessions, sessions, threads>>

TakeDelivery(orderId) ==
  /\ rev = "A"
  /\ Claim(orderId)
  /\ UNCHANGED success

CompleteDelivery(orderId) ==
  /\ rev = "A"
  /\ orders' = updateOrderStatus(orders, orderId, "completed", None, NoDetails)
  /\ reply' = Answer(updateOrderStatusOk(orders, orderId))
  /\ UNCHANGED <<rev, http, users, shown, products, cache, success, orderItems, deliverySessions, sessions, threads>>

\* ---- cancellation ----
\* DatabaseService.cancelOrder (revision A): pending or preparing -> cancelled
cancelOrderOk(ords, orderId) ==
  orderId \in DOMAIN ords /\ ords[orderId].status \in {"pending", "preparing"}

cancelOrder(ords, orderId) ==
  IF cancelOrderOk(ords, orderId)
  THEN [ords EXCEPT ![orderId].status = "cancelled"]
  ELSE ords

ConfirmCancelA(orderId) ==
  /\ rev = "A"
  /\ orders' = cancelOrder(orders, orderId)
  /\ reply' = Answer(cancelOrderOk(orders, orderId))
  /\ UNCHANGED <<rev, http, users, shown, products, cache, success, orderItems, deliverySessions, sessions, threads>>

\* revision B: first conditional write, pending -> cancelled
ConfirmCancelB(t, orderId) ==
  /\ rev = "B"
  /\ Idle(t)
  /\ orders' = atomicStatusUpdate(orders, orderId, "pending", "cancelled")
  /\ IF atomicStatusUpdateOk(orders, orderId, "pending")
     THEN Finish(t, "ok")
     ELSE /\ threads' = [threads EXCEPT ![t] =
                           [IdleThread EXCEPT !.pc = "cancel2", !.op = "confirm_cancel",
                                              !.cart = orderId]]
          /\ UNCHANGED reply
  /\ UNCHANGED <<rev, http, users, shown, products, cache, success, orderItems, deliverySessions, sessions>>

\* a cancel that gives up after the first conditional write has failed
ConfirmCancelGivesUp(t) ==
  /\ threads[t].pc = "cancel2"
  /\ Finish(t, "fail")
  /\ UNCHANGED <<rev, http, users, shown, products, cache, success, orders, orderItems,
                 deliverySessions, sessions>>

\* revision B: second conditional write, preparing -> cancelled
ConfirmCancelSecond(t) ==
  /\ threads[t].pc = "cancel2"
  /\ orders' = atomicStatusUpdate(orders, threads[t].cart, "preparing", "cancelled")
  /\ Finish(t, Answer(atomicStatusUpdateOk(orders, threads[t].cart, "preparing")))
  /\ UNCHANGED <<rev, http, users, shown, products, cache, success, orderItems, deliverySessions, sessions>>

\* ---- customer handlers ----
getDeliverySession(userId) ==
  IF deliverySessions[userId].step = "absent"
  THEN [NoDeliverySession EXCEPT !.step = "side"]
  ELSE deliverySessions[userId]

\* continuation of a handler once getOrCreateCartOrder has returned cart c
AfterCart(t, th, c) ==
  /\ IF th.op \in {"menu", "start_delivery"}
     THEN Finish(t, "ok")
     ELSE IF th.op = "after_checkout"
     THEN /\ threads' = [threads EXCEPT ![t] = IdleThread]
          /\ UNCHANGED reply
     ELSE /\ threads' = [threads EXCEPT ![t] = [th EXCEPT !.pc = "write", !.cart = c]]
          /\ UNCHANGED reply
  /\ deliverySessions' =
       IF th.op = "start_delivery"
       THEN [deliverySessions EXCEPT ![th.user] =
               [getDeliverySession(th.user) EXCEPT !.orderId = c, !.step = "side"]]
       ELSE deliverySessions

\* getOrCreateCartOrder: the find-existing step, and the create step either
\* in the same round trip (MemoryStore) or as a second one (durable backend)
CartStep(t, th) ==
  LET carts == FindCart(orders, th.user)
  IN IF carts # {}
     THEN /\ AfterCart(t, th, CHOOSE c \in carts : \A d \in carts : c <= d)
          /\ UNCHANGED <<orders, orderItems>>
     ELSE \/ /\ Len(orders) < MaxOrders
             /\ orders' = Append(orders, NewCart(th.user))
             /\ orderItems' = [orderItems EXCEPT ![nextOrderId] = <<>>]
             /\ AfterCart(t, th, nextOrderId)
          \/ /\ threads' = [threads EXCEPT ![t] = [th EXCEPT !.pc = "create_cart"]]
             /\ UNCHANGED <<orders, orderItems, deliverySessions, reply>>

\* the durable backend's insert of a cart row; the orders table has no
\* uniqueness constraint on (customer_id, status = 'cart')
CreateCart(t) ==
  /\ threads[t].pc = "create_cart"
  /\ Len(orders) < MaxOrders
  /\ orders' = Append(orders, NewCart(threads[t].user))
  /\ AfterCart(t, threads[t], nextOrderId)
  /\ UNCHANGED <<rev, http, users, shown, products, cache, success, orderItems, sessions>>

Begin(t, th) ==
  /\ Idle(t)
  /\ CartStep(t, th)
  /\ UNCHANGED <<rev, http, users, shown, products, cache, success, sessions>>

\* /start, cart button: showCustomerMainMenu / showCart
ShowMenu(t, u) ==
  Begin(t, [IdleThread EXCEPT !.op = "menu", !.user = u])

\* add_product_<id> (revision A, one unit), confirm_qty_<id>_<n> (revision B)
AddProduct(t, u) ==
  Begin(t, [IdleThread EXCEPT !.op = "add", !.user = u])

RECURSIVE Units(_)
Units(items) ==
  IF items = <<>> THEN 0 ELSE Head(items).quantity + Units(Tail(items))

\* db.addItemToOrder(cartOrder.id, productId, quantity, product.price)
AddItem(t, productId, quantity, price) ==
  LET th == threads[t]
      items2 == addItemToOrderItems(orderItems, th.cart, productId, quantity, price)
  IN /\ th.pc = "write" /\ th.op = "add"
     /\ rev = "A" => quantity = 1
     /\ Units(orderItems[th.cart]) + quantity <= MaxQty
     /\ orderItems' = items2
     /\ orders' = updateOrderTotal(orders, items2, th.cart)
     /\ Finish(t, "ok")
     /\ UNCHANGED <<rev, http, users, shown, success, deliverySessions, sessions>>

\* the add while the catalog does not change: the product list getCachedProducts
\* returns carries the catalog prices
AddItemWrite(t, productId, quantity) ==
  /\ AddItem(t, productId, quantity, Price(productId))
  /\ UNCHANGED <<products, cache>>

\* getCachedProducts: the cached list, or on a miss db.getAvailableProducts()
\* stored under CACHE_KEYS.PRODUCTS
getCachedProducts == IF cache = NoCache THEN products ELSE cache

\* the add under a changing catalog: product.price is the price in the list
\* getCachedProducts returns
AddItemCached(t, productId, quantity) ==
  /\ AddItem(t, productId, quantity, getCachedProducts[productId])
  /\ cache' = getCachedProducts
  /\ UNCHANGED products

\* ---- cart editing (revision B); the store calls are the durable service's ----
\* a removal that takes the first line item when the product has none
RemoveProductOrFirst(items, productId) ==
  IF \E i \in DOMAIN items : items[i].product_id = productId
  THEN SelectSeq(items, LAMBDA it : it.product_id # productId)
  ELSE IF items = <<>> THEN items ELSE Tail(items)

RemoveProduct(items, productId) ==
  SelectSeq(items, LAMBDA it : it.product_id # productId)

\* db.updateItemQuantity: sets the quantity of an existing line item
updateItemQuantityOk(items, orderId, productId, quantity) ==
  FindItem(items[orderId], productId) # {} /\ quantity >= 1

updateItemQuantity(items, orderId, productId, quantity) ==
  IF updateItemQuantityOk(items, orderId, productId, quantity)
  THEN [items EXCEPT ![orderId] =
          [i \in 1..Len(@) |-> IF @[i].product_id = productId
                               THEN [@[i] EXCEPT !.quantity = quantity] ELSE @[i]]]
  ELSE items

\* db.removeItemFromOrder: deletes the line item of a product, if any
removeItemFromOrder(items, orderId, productId) ==
  [items EXCEPT ![orderId] = RemoveProduct(@, productId)]

\* db.clearCart: deletes every line item of the order
clearCart(items, orderId) == [items EXCEPT ![orderId] = <<>>]

UpdateItemQty(t, u) ==
  /\ rev = "B"
  /\ Begin(t, [IdleThread EXCEPT !.op = "update_qty", !.user = u])

UpdateItemQtyWrite(t, productId, quantity) ==
  LET th == threads[t]
      cur == FindItem(orderItems[th.cart], productId)
      same == cur # {} /\ orderItems[th.cart][CHOOSE i \in cur : TRUE].quantity = quantity
      items2 == updateItemQuantity(orderItems, th.cart, productId, quantity)
  IN /\ th.pc = "write" /\ th.op = "update_qty"
     /\ Units(items2[th.cart]) <= MaxQty
     /\ IF same
        THEN /\ Finish(t, "ok")
             /\ UNCHANGED <<orders, orderItems>>
        ELSE /\ orderItems' = items2
             /\ orders' = updateOrderTotal(orders, items2, th.cart)
             /\ Finish(t, Answer(updateItemQuantityOk(orderItems, th.cart, productId, quantity)))
     /\ UNCHANGED <<rev, http, users, shown, products, cache, success, deliverySessions, sessions>>

RemoveItem(t, u) ==
  /\ rev = "B"
  /\ Begin(t, [IdleThread EXCEPT !.op = "remove_item", !.user = u])

RemoveItemWrite(t, productId) ==
  LET th == threads[t]
      items2 == removeItemFromOrder(orderItems, th.cart, productId)
  IN /\ th.pc = "write" /\ th.op = "remove_item"
     /\ orderItems' = items2
     /\ orders' = updateOrderTotal(orders, items2, th.cart)
     /\ Finish(t, "ok")
     /\ UNCHANGED <<rev, http, users, shown, products, cache, success, deliverySessions, sessions>>

ClearCart(t, u) ==
  /\ rev = "B"
  /\ Begin(t, [IdleThread EXCEPT !.op = "clear_cart", !.user = u])

ClearCartWrite(t) ==
  LET th == threads[t]
      items2 == clearCart(orderItems, th.cart)
  IN /\ th.pc = "write" /\ th.op = "clear_cart"
     /\ orderItems' = items2
     /\ orders' = updateOrderTotal(orders, items2, th.cart)
     /\ Finish(t, "ok")
     /\ UNCHANGED <<rev, http, users, shown, products, cache, success, deliverySessions, sessions>>

\* ---- checkout ----
\* processCheckout for a counter: pickup_left_buffer, pickup_right_buffer
PickupCounter(t, u) ==
  Begin(t, [IdleThread EXCEPT !.op = "checkout", !.user = u])

\* store-unavailable: a round trip of the durable backend may fail
StoreAvailable == BOOLEAN

\* processCheckout after the cart is known: getOrderWithItems, the empty-cart
\* check, updateOrderStatus(cartOrder.id, 'pending', pickupLocation,
\* deliveryDetails), then showCustomerMainMenu
CheckoutWrite(t, loc) ==
  LET th == threads[t]
  IN /\ th.pc = "write"
     /\ \/ th.op = "checkout" /\ loc \in {"left_buffer", "right_buffer"}
        \/ th.op = "checkout_delivery" /\ loc = "delivery"
     /\ IF orderItems[th.cart] = <<>>
        THEN /\ Finish(t, "fail")
             /\ UNCHANGED orders
        ELSE \E up \in StoreAvailable :
               IF up /\ updateOrderStatusOk(orders, th.cart)
               THEN /\ orders' = updateOrderStatus(orders, th.cart, "pending", loc, th.det)
                    /\ threads' = [threads EXCEPT ![t] =
                                     [IdleThread EXCEPT !.pc = "menu", !.op = "after_checkout",
                                                        !.user = th.user]]
                    /\ reply' = "ok"
               ELSE /\ Finish(t, "fail")
                    /\ UNCHANGED orders
     /\ UNCHANGED <<rev, http, users, shown, products, cache, success, orderItems, deliverySessions, sessions>>

\* showCustomerMainMenu after a successful checkout
TrailingMenu(t) ==
  /\ threads[t].pc = "menu"
  /\ CartStep(t, threads[t])
  /\ UNCHANGED <<rev, http, users, shown, products, cache, success, sessions>>

\* ---- delivery wizard, revision A (deliverySessions) ----
\* a completion that leaves the session entry in place
keepDeliverySession(userId) == deliverySessions

\* deliverySessions.delete(userId)
clearDeliverySession(userId) ==
  [deliverySessions EXCEPT ![userId] = NoDeliverySession]

\* pickup_delivery: startDeliveryProcess
PickupDeliveryA(t, u) ==
  /\ rev = "A"
  /\ Begin(t, [IdleThread EXCEPT !.op = "start_delivery", !.user = u])

\* delivery_side_left, delivery_side_right: handleDeliverySide
HandleDeliverySide(u, side) ==
  /\ rev = "A"
  /\ deliverySessions' = [deliverySessions EXCEPT ![u] =
                            [getDeliverySession(u) EXCEPT !.side = side, !.step = "sector"]]
  /\ UNCHANGED <<rev, http, users, shown, products, cache, success, orders, orderItems, sessions, threads, reply>>

\* delivery_sector_<d>: handleDeliverySector
HandleDeliverySector(u, sector) ==
  /\ rev = "A"
  /\ deliverySessions' = [deliverySessions EXCEPT ![u] =
                            [getDeliverySession(u) EXCEPT !.sector = sector, !.step = "row"]]
  /\ UNCHANGED <<rev, http, users, shown, products, cache, success, orders, orderItems, sessions, threads, reply>>

\* text message while the session is at step row, or at no text step
TextRowA(u, text) ==
  /\ rev = "A"
  /\ getDeliverySession(u).step # "seat"
  /\ deliverySessions' = [deliverySessions EXCEPT ![u] =
                            IF getDeliverySession(u).step = "row"
                            THEN [getDeliverySession(u) EXCEPT !.row = text, !.step = "seat"]
                            ELSE getDeliverySession(u)]
  /\ UNCHANGED <<rev, http, users, shown, products, cache, success, orders, orderItems, sessions, threads, reply>>

\* db.updateOrderDeliveryDetails: writes the four coordinates of an order
updateOrderDeliveryDetails(ords, orderId, side, sector, row, seat) ==
  IF orderId \in DOMAIN ords
  THEN [ords EXCEPT ![orderId].delivery_side = side, ![orderId].sector = sector,
                    ![orderId].seat_row = row, ![orderId].seat_number = seat]
  ELSE ords

\* text message at step seat: the seat is stored and completeDeliveryProcess
\* runs up to its first store call, updateOrderDeliveryDetails
TextSeatA(t, u, text) ==
  LET s == [getDeliverySession(u) EXCEPT !.seat = text, !.step = "completed"]
      complete == /\ s.orderId # 0 /\ TruthyStr(s.side) /\ TruthyNum(s.sector)
                  /\ TruthyStr(s.row) /\ TruthyStr(s.seat)
  IN /\ rev = "A"
     /\ Idle(t)
     /\ getDeliverySession(u).step = "seat"
     /\ IF ~complete
        THEN /\ deliverySessions' = clearDeliverySession(u)
             /\ Finish(t, "fail")
             /\ UNCHANGED orders
        ELSE \E up \in StoreAvailable :
               IF up /\ s.orderId \in DOMAIN orders
               THEN /\ orders' = updateOrderDeliveryDetails(orders, s.orderId, s.side,
                                                            s.sector, s.row, s.seat)
                    /\ deliverySessions' = [deliverySessions EXCEPT ![u] = s]
                    /\ threads' = [threads EXCEPT ![t] =
                                     [IdleThread EXCEPT !.pc = "dlv_status",
                                                        !.op = "complete_delivery",
                                                        !.user = u, !.cart = s.orderId]]
                    /\ UNCHANGED reply
               ELSE /\ deliverySessions' = clearDeliverySession(u)
                    /\ Finish(t, "fail")
                    /\ UNCHANGED orders
     /\ UNCHANGED <<rev, http, users, shown, products, cache, success, orderItems, sessions>>

\* completeDeliveryProcess, second store call: updateOrderStatus(orderId,
\* 'pending', 'delivery'); the session is discarded on every outcome
CompleteDeliveryStatus(t) ==
  LET th == threads[t]
      orderId == IF deliverySessions[th.user].step # "absent"
                 THEN deliverySessions[th.user].orderId ELSE th.cart
  IN /\ th.pc = "dlv_status"
     /\ deliverySessions' = clearDeliverySession(th.user)
     /\ \E up \in StoreAvailable :
          IF up /\ updateOrderStatusOk(orders, orderId)
          THEN /\ orders' = updateOrderStatus(orders, orderId, "pending", "delivery", NoDetails)
               /\ threads' = [threads EXCEPT ![t] =
                                [IdleThread EXCEPT !.pc = "menu", !.op = "after_checkout",
                                                   !.user = th.user]]
               /\ reply' = "ok"
          ELSE /\ Finish(t, "fail")
               /\ UNCHANGED orders
     /\ UNCHANGED <<rev, http, users, shown, products, cache, success, orderItems, sessions>>

\* ---- delivery wizard, revision B (session flags) ----
\* delivery_side_(left|right)
DeliverySideB(u, side) ==
  /\ rev = "B"
  /\ sessions' = [sessions EXCEPT ![u].delivery_side = side]
  /\ UNCHANGED <<rev, http, users, shown, products, cache, success, orders, orderItems, deliverySessions, threads, reply>>

\* delivery_sector_<d>
DeliverySectorB(u, sector) ==
  /\ rev = "B"
  /\ sessions' = [sessions EXCEPT ![u].delivery_sector = sector,
                                  ![u].waiting_for_row = TRUE]
  /\ UNCHANGED <<rev, http, users, shown, products, cache, success, orders, orderItems, deliverySessions, threads, reply>>

\* text message while waiting_for_row
TextRowB(u, text) ==
  /\ rev = "B"
  /\ sessions[u].waiting_for_row
  /\ sessions' = [sessions EXCEPT ![u].delivery_row = text,
                                  ![u].waiting_for_row = FALSE,
                                  ![u].waiting_for_seat = TRUE]
  /\ UNCHANGED <<rev, http, users, shown, products, cache, success, orders, orderItems, deliverySessions, threads, reply>>

\* text message while waiting_for_seat: processCheckout(ctx, 'delivery', details)
TextSeatB(t, u, text) ==
  /\ rev = "B"
  /\ ~sessions[u].waiting_for_row
  /\ sessions[u].waiting_for_seat
  /\ Idle(t)
  /\ sessions' = [sessions EXCEPT ![u].delivery_seat = text,
                                  ![u].waiting_for_seat = FALSE]
  /\ CartStep(t, [IdleThread EXCEPT
                    !.op = "checkout_delivery", !.user = u,
                    !.det = [delivery_side |-> sessions[u].delivery_side,
                             sector |-> sessions[u].delivery_sector,
                             seat_row |-> sessions[u].delivery_row,
                             seat_number |-> text]])
  /\ UNCHANGED <<rev, http, users, shown, products, cache, success>>

\* handlers with one store round trip
Atomic ==
  \/ \E o \in OrderIds :
       \/ TakeOrder(o)
       \/ ReadyOrder(o)
       \/ CompleteOrder(o)
       \/ TakeDelivery(o)
       \/ CompleteDelivery(o)
       \/ ConfirmCancelA(o)

\* the order engine's handlers, but for the add itself, run by the invocations
\* T over the products P and the quantities Q
EngineRest(T, P, Q) ==
  \E t \in T :
    \/ \E o \in OrderIds : ConfirmCancelB(t, o)
    \/ ConfirmCancelSecond(t)
    \/ CreateCart(t)
    \/ \E p \in P : \E q \in Q : UpdateItemQtyWrite(t, p, q)
    \/ \E p \in P : RemoveItemWrite(t, p)
    \/ ClearCartWrite(t)
    \/ \E loc \in Locations : CheckoutWrite(t, loc)
    \/ TrailingMenu(t)
    \/ \E u \in Customers :
         \/ ShowMenu(t, u)
         \/ AddProduct(t, u)
         \/ UpdateItemQty(t, u)
         \/ RemoveItem(t, u)
         \/ ClearCart(t, u)
         \/ PickupCounter(t, u)

\* the order engine's handlers under a constant catalog
Engine(T, P, Q) ==
  \/ EngineRest(T, P, Q)
  \/ \E t \in T : \E p \in P : \E q \in Q : AddItemWrite(t, p, q)

\* the delivery wizards
Wizard(T) ==
  \E u \in Customers :
    \/ \E side \in SideInputs : HandleDeliverySide(u, side)
    \/ \E n \in SectorInputs : HandleDeliverySector(u, n)
    \/ \E text \in TextInputs : TextRowA(u, text)
    \/ \E side \in SideInputs : DeliverySideB(u, side)
    \/ \E n \in SectorInputs : DeliverySectorB(u, n)
    \/ \E text \in TextInputs : TextRowB(u, text)
    \/ \E t \in T :
         \/ PickupDeliveryA(t, u)
         \/ \E text \in TextInputs : TextSeatA(t, u, text)
         \/ CompleteDeliveryStatus(t)
         \/ \E text \in TextInputs : TextSeatB(t, u, text)

\* the bot: every handler of both revisions, one handler with several round
\* trips in flight, one product on sale
Next == Atomic \/ Engine({1}, {1}, Quantities) \/ Wizard({1})

Spec == Init /\ [][Next]_vars

\* the order engine under NumThreads concurrent invocations
NextConc == Atomic \/ Engine(Threads, {1}, Quantities)

SpecConc == Init /\ [][NextConc]_vars

\* the order engine over the whole catalog and every quantity the callback
\* patterns accept
NextCart == Atomic \/ Engine({1}, ProductIds, AllQuantities)

SpecCart == Init /\ [][NextCart]_vars

\* ---- a changing catalog ----
\* an update of products.price in the store
ChangePrice(productId, price) ==
  /\ products[productId] # price
  /\ products' = [products EXCEPT ![productId] = price]
  /\ UNCHANGED <<rev, http, users, shown, cache, success, orders, orderItems, deliverySessions, sessions,
                 threads, reply>>

\* the cached product list outlives its 5 minutes and is dropped
ExpireCache ==
  /\ cache # NoCache
  /\ cache' = NoCache
  /\ UNCHANGED <<rev, http, users, shown, products, success, orders, orderItems, deliverySessions, sessions,
                 threads, reply>>

\* add_product_<id> of revision B: getCachedProducts, then the quantity buttons
SelectProductB ==
  /\ rev = "B"
  /\ cache' = getCachedProducts
  /\ UNCHANGED <<rev, http, users, shown, products, success, orders, orderItems, deliverySessions, sessions,
                 threads, reply>>

NextPrice ==
  \/ Atomic
  \/ EngineRest({1}, {1}, Quantities)
  \/ \E q \in Quantities : AddItemCached(1, 1, q)
  \/ \E price \in PriceInputs : ChangePrice(1, price)
  \/ ExpireCache
  \/ SelectProductB

SpecPrice == Init /\ [][NextPrice]_vars

\* ---- the claim race ----
RaceOrder == 1

LineItem(p, q) == [product_id |-> p, quantity |-> q, price_at_time |-> Price(p)]

\* a checked-out order as processCheckout / completeDeliveryProcess leave it
PendingOrder(items, loc) ==
  [CartAt(1, RaceOrder) EXCEPT
     !.status = "pending", !.pickup_location = loc, !.total_amount = SumItems(items),
     !.delivery_side = IF loc = "delivery" THEN "left" ELSE None,
     !.sector = IF loc = "delivery" THEN 1 ELSE Undef,
     !.seat_row = IF loc = "delivery" THEN "5" ELSE None,
     !.seat_number = IF loc = "delivery" THEN "5" ELSE None]

\* one pending order, no handler in flight, no seller has answered yet
InitRace ==
  /\ rev \in {"A", "B"}
  /\ \E p \in ProductIds : \E q \in Quantities : \E loc \in Locations :
       /\ loc = "delivery" => rev = "A"
       /\ orders = <<PendingOrder(<<LineItem(p, q)>>, loc)>>
       /\ orderItems = [o \in OrderIds |-> IF o = RaceOrder THEN <<LineItem(p, q)>> ELSE <<>>]
  /\ deliverySessions = [u \in Customers |-> NoDeliverySession]
  /\ sessions = [u \in Customers |-> EmptySession]
  /\ threads = [t \in Threads |-> IdleThread]
  /\ reply = "ok"
  /\ success = [s \in Sellers |-> "none"]
  /\ products = Catalog
  /\ cache = NoCache
  /\ shown = NothingShown
  /\ users = NoUsers
  /\ http = NoWebhook

\* seller s presses take_order on the order
RaceTakeOrder(s) ==
  /\ success[s] = "none"
  /\ Claim(RaceOrder)
  /\ success' = [success EXCEPT ![s] = reply']

\* seller s presses take_delivery on the order
RaceTakeDelivery(s) ==
  /\ rev = "A"
  /\ success[s] = "none"
  /\ Claim(RaceOrder)
  /\ success' = [success EXCEPT ![s] = reply']

NextRace == \E s \in Sellers : RaceTakeOrder(s) \/ RaceTakeDelivery(s)

SpecRace == InitRace /\ [][NextRace]_vars

\* ---- the cancel against the claim ----
\* one pending order; sellers press take_order while confirm_cancel of
\* revision B runs its two conditional writes
NextCancel ==
  \/ \E s \in Sellers : RaceTakeOrder(s)
  \/ \E t \in Threads : ConfirmCancelB(t, RaceOrder)
  \/ \E t \in Threads : ConfirmCancelSecond(t)

SpecCancel == InitRace /\ [][NextCancel]_vars

\* ---- the store called directly ----
\* the (expected, new) pairs the handlers pass to atomicStatusUpdate
CasPairs ==
  {<<"pending", "preparing">>, <<"pending", "cancelled">>, <<"preparing", "cancelled">>}

\* what addItemToOrder returns: true on every path but an exception
addItemToOrderOk(ords, orderId) == TRUE

\* MemoryStore.getOrCreateCartOrder(customerId)
StoreGetOrCreateCartOrder(u) ==
  /\ IF FindCart(orders, u) # {}
     THEN UNCHANGED <<orders, orderItems>>
     ELSE /\ Len(orders) < MaxOrders
          /\ orders' = Append(orders, NewCart(u))
          /\ orderItems' = [orderItems EXCEPT ![nextOrderId] = <<>>]
  /\ reply' = "ok"
  /\ UNCHANGED <<rev, http, users, shown, products, cache, success, deliverySessions, sessions, threads>>

\* MemoryStore.addItemToOrder(orderId, productId, quantity, price), any order id
StoreAddItemToOrder(orderId, productId, quantity, price) ==
  LET items2 == addItemToOrderItems(orderItems, orderId, productId, quantity, price)
  IN /\ Units(orderItems[orderId]) + quantity <= MaxQty
     /\ orderItems' = items2
     /\ orders' = updateOrderTotal(orders, items2, orderId)
     /\ reply' = Answer(addItemToOrderOk(orders, orderId))
     /\ UNCHANGED <<rev, http, users, shown, products, cache, success, deliverySessions, sessions, threads>>

\* MemoryStore.updateOrderStatus(orderId, status, pickupLocation)
StoreUpdateOrderStatus(orderId, status, pickupLocation) ==
  /\ orders' = updateOrderStatus(orders, orderId, status, pickupLocation, NoDetails)
  /\ reply' = Answer(updateOrderStatusOk(orders, orderId))
  /\ UNCHANGED <<rev, http, users, shown, products, cache, success, orderItems, deliverySessions, sessions, threads>>

\* MemoryStore.atomicStatusUpdate(orderId, expectedStatus, newStatus)
StoreAtomicStatusUpdate(orderId, expectedStatus, newStatus) ==
  /\ orders' = atomicStatusUpdate(orders, orderId, expectedStatus, newStatus)
  /\ reply' = Answer(atomicStatusUpdateOk(orders, orderId, expectedStatus))
  /\ UNCHANGED <<rev, http, users, shown, products, cache, success, orderItems, deliverySessions, sessions, threads>>

NextStore ==
  \/ \E u \in Customers : StoreGetOrCreateCartOrder(u)
  \/ \E o \in OrderIds :
       \/ \E q \in AllQuantities : \E price \in PriceInputs :
            StoreAddItemToOrder(o, 1, q, price)
       \/ \E st \in Statuses : \E loc \in {None, "left_buffer"} :
            StoreUpdateOrderStatus(o, st, loc)
       \/ \E c \in CasPairs : StoreAtomicStatusUpdate(o, c[1], c[2])

SpecStore == Init /\ [][NextStore]_vars

\* ---- staff queries ----
Roles == {"customer", "seller_left", "seller_right", "delivery"}

\* the declared parameter type of the two seller queries
SellerRoles == {"seller_left", "seller_right"}

StaffRoles == Roles \ {"customer"}

\* Array.from(this.orders.values()): the order ids in insertion order
OrderList(ords) == [i \in 1..Len(ords) |-> i]

\* one step of a stable sort on created_at: o goes in front of the first
\* entry the comparator dir * (a.created_at - b.created_at) ranks after it
RECURSIVE InsertByCreatedAt(_, _, _, _)
InsertByCreatedAt(ords, sorted, o, dir) ==
  IF sorted = <<>> THEN <<o>>
  ELSE IF dir * (ords[o].created_at - ords[Head(sorted)].created_at) < 0
       THEN <<o>> \o sorted
       ELSE <<Head(sorted)>> \o InsertByCreatedAt(ords, Tail(sorted), o, dir)

RECURSIVE SortByCreatedAt(_, _, _)
SortByCreatedAt(ords, list, dir) ==
  IF list = <<>> THEN <<>>
  ELSE InsertByCreatedAt(ords, SortByCreatedAt(ords, SubSeq(list, 1, Len(list) - 1), dir),
                         list[Len(list)], dir)

\* the comparator of getOrdersByCustomer: b.created_at - a.created_at
SortNewestFirst(ords, list) == SortByCreatedAt(ords, list, -1)

\* the comparator of the staff queries: a.created_at - b.created_at
SortOldestFirst(ords, list) == SortByCreatedAt(ords, list, 1)

\* const location = sellerRole === 'seller_left' ? 'left_buffer' : 'right_buffer'
SellerLocation(sellerRole) ==
  IF sellerRole = "seller_left" THEN "left_buffer" ELSE "right_buffer"

\* MemoryStore.getPendingOrdersForSeller: the ids of the orders it returns
\* (each is joined with its line items by getOrderWithItems)
getPendingOrdersForSeller(ords, sellerRole) ==
  LET location == SellerLocation(sellerRole)
      Match(o) == ords[o].pickup_location = location /\ ords[o].status = "pending"
  IN SortOldestFirst(ords, SelectSeq(OrderList(ords), Match))

\* MemoryStore.getActiveOrdersForSeller: the ids of the orders it returns
getActiveOrdersForSeller(ords, sellerRole) ==
  LET location == SellerLocation(sellerRole)
      Match(o) == /\ ords[o].pickup_location = location
                  /\ ords[o].status \in {"preparing", "ready_for_pickup"}
  IN SortOldestFirst(ords, SelectSeq(OrderList(ords), Match))

\* DatabaseService.getPendingDeliveryOrders: pending delivery orders, oldest first
getPendingDeliveryOrders(ords) ==
  LET Match(o) == ords[o].pickup_location = "delivery" /\ ords[o].status = "pending"
  IN SortOldestFirst(ords, SelectSeq(OrderList(ords), Match))

\* DatabaseService.getActiveDeliveryOrders: delivery orders in preparation or
\* ready, oldest first
getActiveDeliveryOrders(ords) ==
  LET Match(o) == /\ ords[o].pickup_location = "delivery"
                  /\ ords[o].status \in {"preparing", "ready_for_pickup"}
  IN SortOldestFirst(ords, SelectSeq(OrderList(ords), Match))

\* orders.filter(o => o.status === status)
SliceByStatus(ords, list, status) ==
  LET Match(o) == ords[o].status = status
  IN SelectSeq(list, Match)

\* a query answers with a list of orders and writes nothing
Show(query, role, list) ==
  /\ shown' = [query |-> query, role |-> role, orders |-> list]
  /\ UNCHANGED <<rev, http, users, products, cache, success, orders, orderItems,
                 deliverySessions, sessions, threads, reply>>

\* the store's queries called with a role of their declared type
StoreGetPendingOrdersForSeller(sellerRole) ==
  Show("new", sellerRole, getPendingOrdersForSeller(orders, sellerRole))

StoreGetActiveOrdersForSeller(sellerRole) ==
  Show("active", sellerRole, getActiveOrdersForSeller(orders, sellerRole))

\* revision A, delivery panel: "new orders" of the delivery role
HearsNewDeliveryOrdersA(role) ==
  /\ rev = "A"
  /\ role = "delivery"
  /\ Show("new", role, getPendingDeliveryOrders(orders))

\* revision A, delivery panel: "in delivery"
HearsInDeliveryA(role) ==
  /\ rev = "A"
  /\ role = "delivery"
  /\ Show("preparing", role,
          SliceByStatus(orders, getActiveDeliveryOrders(orders), "preparing"))

\* revision A, seller panel: "new orders"; every role but customer passes
HearsNewOrdersA(role) ==
  /\ rev = "A"
  /\ role # "customer"
  /\ Show("new", role, getPendingOrdersForSeller(orders, role))

\* revision A, seller panel: "in work" (status = "preparing") and "ready
\* orders" (status = "ready_for_pickup")
HearsActiveA(role, status) ==
  /\ rev = "A"
  /\ role # "customer"
  /\ Show(status, role, SliceByStatus(orders, getActiveOrdersForSeller(orders, role), status))

\* revision B: "new orders", dispatching on the role
HearsNewOrdersB(role) ==
  /\ rev = "B"
  /\ role # "customer"
  /\ Show("new", role,
          IF role = "delivery" THEN getPendingDeliveryOrders(orders)
          ELSE getPendingOrdersForSeller(orders, role))

\* revision B: "in work" and "ready orders", dispatching on the role
HearsActiveB(role, status) ==
  /\ rev = "B"
  /\ role # "customer"
  /\ Show(status, role,
          SliceByStatus(orders,
                        IF role = "delivery" THEN getActiveDeliveryOrders(orders)
                        ELSE getActiveOrdersForSeller(orders, role),
                        status))

ActiveSlices == {"preparing", "ready_for_pickup"}

HearsNewOrders(role) ==
  HearsNewDeliveryOrdersA(role) \/ HearsNewOrdersA(role) \/ HearsNewOrdersB(role)

HearsActive(role, status) ==
  \/ status = "preparing" /\ HearsInDeliveryA(role)
  \/ HearsActiveA(role, status)
  \/ HearsActiveB(role, status)

StaffQueries ==
  \/ \E sellerRole \in SellerRoles :
       StoreGetPendingOrdersForSeller(sellerRole) \/ StoreGetActiveOrdersForSeller(sellerRole)
  \/ \E role \in Roles :
       \/ HearsNewOrders(role)
       \/ \E status \in ActiveSlices : HearsActive(role, status)

\* the store filled through its own calls, and the staff asking
NextStaff ==
  \/ \E u \in Customers : StoreGetOrCreateCartOrder(u)
  \/ \E o \in OrderIds :
       \/ \E st \in Statuses : \E loc \in Locations \cup {None} :
            StoreUpdateOrderStatus(o, st, loc)
       \/ \E c \in CasPairs : StoreAtomicStatusUpdate(o, c[1], c[2])
  \/ StaffQueries

SpecStaff == Init /\ [][NextStaff]_vars

\* ---- accounts and the handlers by account ----
\* MemoryStore.createOrUpdateUser: users.set(user_id, user), whatever is stored
createOrUpdateUser(usrs, userId, role) == [usrs EXCEPT ![userId] = role]

\* middleware, first round trip: getUserByTelegramId; a known account goes on
\* to its handler, an unknown one to createOrUpdateUser
MiddlewareLookup(t, a) ==
  /\ Idle(t)
  /\ IF users[a] # Absent
     THEN Finish(t, "ok")
     ELSE /\ threads' = [threads EXCEPT ![t] =
                           [IdleThread EXCEPT !.pc = "create_user", !.op = "middleware",
                                              !.user = a]]
          /\ UNCHANGED reply
  /\ UNCHANGED <<rev, http, users, shown, products, cache, success, orders, orderItems,
                 deliverySessions, sessions>>

\* middleware, second round trip: createOrUpdateUser({..., role: 'customer'})
MiddlewareCreate(t) ==
  /\ threads[t].pc = "create_user"
  /\ users' = createOrUpdateUser(users, threads[t].user, "customer")
  /\ Finish(t, "ok")
  /\ UNCHANGED <<rev, http, shown, products, cache, success, orders, orderItems,
                 deliverySessions, sessions>>

\* a role provisioned from outside the bot (an operator writes the account row)
Provision(a, role) ==
  /\ users' = createOrUpdateUser(users, a, role)
  /\ UNCHANGED <<rev, http, shown, products, cache, success, orders, orderItems,
                 deliverySessions, sessions, threads, reply>>

\* ctx.state.user is set: the middleware has found or created the account
Known(a) == users[a] # Absent

\* cancel_order_<id>: the permission and status checks before the
\* confirmation keyboard is shown; nothing is written
CancelOrderBy(a, orderId) ==
  /\ Known(a)
  /\ reply' = Answer(/\ orderId \in DOMAIN orders
                     /\ \/ orders[orderId].customer_id = a
                        \/ users[a] \in (IF rev = "A" THEN {"seller_left", "seller_right", "delivery"}
                                         ELSE {"seller_left", "seller_right"})
                     /\ orders[orderId].status \in {"pending", "preparing"})
  /\ UNCHANGED <<rev, http, users, shown, products, cache, success, orders, orderItems,
                 deliverySessions, sessions, threads>>

\* the callbacks that write a status, sent by account a: none of them reads
\* ctx.state.user before the write
TakeOrderBy(a, orderId) == Known(a) /\ TakeOrder(orderId)

ReadyOrderBy(a, orderId) == Known(a) /\ ReadyOrder(orderId)

CompleteOrderBy(a, orderId) == Known(a) /\ CompleteOrder(orderId)

TakeDeliveryBy(a, orderId) == Known(a) /\ TakeDelivery(orderId)

CompleteDeliveryBy(a, orderId) == Known(a) /\ CompleteDelivery(orderId)

ConfirmCancelBy(a, t, orderId) ==
  Known(a) /\ (ConfirmCancelA(orderId) \/ ConfirmCancelB(t, orderId))

\* claim and advance
StaffActionBy(a, orderId) ==
  \/ TakeOrderBy(a, orderId)
  \/ ReadyOrderBy(a, orderId)
  \/ CompleteOrderBy(a, orderId)
  \/ TakeDeliveryBy(a, orderId)
  \/ CompleteDeliveryBy(a, orderId)

\* processCheckout's write, by the customer who owns the cart
StoreCheckout(orderId, loc) ==
  /\ orderId \in DOMAIN orders
  /\ StoreUpdateOrderStatus(orderId, "pending", loc)

NextAuth ==
  \/ \E a \in Accounts : MiddlewareLookup(1, a)
  \/ MiddlewareCreate(1)
  \/ \E a \in Accounts : \E role \in StaffRoles : Provision(a, role)
  \/ \E u \in Customers : StoreGetOrCreateCartOrder(u)
  \/ \E o \in OrderIds : \E loc \in Locations : StoreCheckout(o, loc)
  \/ \E a \in Accounts : \E o \in OrderIds :
       \/ CancelOrderBy(a, o)
       \/ StaffActionBy(a, o)
       \/ ConfirmCancelBy(a, 1, o)
  \/ ConfirmCancelSecond(1)

SpecAuth == Init /\ [][NextAuth]_vars

\* the middleware of two updates in flight, and the operator
NextUsers ==
  \/ \E t \in Threads : \E a \in Accounts : MiddlewareLookup(t, a)
  \/ \E t \in Threads : MiddlewareCreate(t)
  \/ \E a \in Accounts : \E role \in StaffRoles : Provision(a, role)

SpecUsers == Init /\ [][NextUsers]_vars

\* ---- the webhook function (api/bot) ----
\* the two handlers: the compiled one and the newer one that answers GET
WebhookFiles == {"api/bot.js", "api/bot.ts"}
Methods == {"GET", "POST", "PUT"}
\* process.env.WEBHOOK_SECRET: not set, empty, or a secret
SecretValues == {"undefined", "", "s1"}
\* req.headers['x-webhook-secret']: no header, or the value sent
HeaderValues == {"undefined", "", "s1", "s2"}

\* !webhookSecret
Falsy(v) == v \in {"undefined", ""}

\* every request passes
validateRequestOpen(webhookSecret, providedSecret) == TRUE

validateRequest(webhookSecret, providedSecret) ==
  IF Falsy(webhookSecret) THEN TRUE ELSE providedSecret = webhookSecret

\* res.status(code).json(...): the function has answered and waits for the next request
Responded(h, method, header, code) ==
  [h EXCEPT !.pc = "waiting", !.method = method, !.header = header, !.status = code]

\* handler(req, res) up to the await of bot.handleUpdate
handler(h, method, header) ==
  IF h.file = "api/bot.ts" /\ method = "GET" THEN Responded(h, method, header, 200)
  ELSE IF method # "POST" THEN Responded(h, method, header, 405)
  ELSE IF ~validateRequest(h.secret, header) THEN Responded(h, method, header, 401)
  ELSE [h EXCEPT !.pc = "handleUpdate", !.method = method, !.header = header, !.status = 0]

botVars == <<rev, orders, orderItems, deliverySessions, sessions, threads, reply, success,
             products, cache, shown, users>>

\* a request arrives
Request(method, header) ==
  /\ http.pc = "waiting"
  /\ http' = handler(http, method, header)
  /\ UNCHANGED botVars

\* bot.handleUpdate(req.body): the handlers the update triggers
HandleUpdate ==
  /\ http.pc = "handleUpdate"
  /\ \/ \E u \in Customers : StoreGetOrCreateCartOrder(u)
     \/ \E o \in OrderIds : \E loc \in Locations : StoreCheckout(o, loc)
     \/ \E o \in OrderIds : TakeOrder(o) \/ ReadyOrder(o) \/ CompleteOrder(o)

\* handleUpdate has returned: res.status(200).json({ ok: true })
RespondOk ==
  /\ http.pc = "handleUpdate"
  /\ http' = [http EXCEPT !.pc = "waiting", !.status = 200]
  /\ UNCHANGED botVars

\* handleUpdate has thrown: res.status(500)
RespondError ==
  /\ http.pc = "handleUpdate"
  /\ http' = [http EXCEPT !.pc = "waiting", !.status = 500]
  /\ UNCHANGED botVars

InitWebhook ==
  /\ InitBot
  /\ \E f \in WebhookFiles : \E secret \in SecretValues :
       http = [file |-> f, secret |-> secret, pc |-> "waiting",
               method |-> "none", header |-> "undefined", status |-> 0]

NextWebhook ==
  \/ \E method \in Methods : \E header \in HeaderValues : Request(method, header)
  \/ HandleUpdate
  \/ RespondOk
  \/ RespondError

SpecWebhook == InitWebhook /\ [][NextWebhook]_vars

\* ---- properties ----
Winners == {s \in Sellers : success[s] = "ok"}
Answered == {s \in Sellers : success[s] # "none"}

HasAllCoords(o) ==
  /\ TruthyStr(o.delivery_side) /\ TruthyNum(o.sector)
  /\ TruthyStr(o.seat_row) /\ TruthyStr(o.seat_number)

HasNoCoords(o) ==
  /\ o.delivery_side = None /\ o.sector = Undef
  /\ o.seat_row = None /\ o.seat_number = None

CompleteDetails(d) ==
  /\ TruthyStr(d.delivery_side) /\ TruthyNum(d.sector)
  /\ TruthyStr(d.seat_row) /\ TruthyStr(d.seat_number)

\* C1: claim race.  With one pending order and NumSellers sellers pressing
\* take_order / take_delivery on it in any order, at most one of them is
\* answered with success, and as soon as one seller has been answered exactly
\* one has succeeded, every other answered seller has failed and the order is
\* preparing; in particular so when all have been answered.
C1_ClaimRace ==
  /\ Cardinality(Winners) <= 1
  /\ Answered # {} =>
       /\ Cardinality(Winners) = 1
       /\ \A s \in Answered \ Winners : success[s] = "fail"
       /\ orders[RaceOrder].status = "preparing"
  /\ Answered = {} => orders[RaceOrder].status = "pending"

\* every seller has pressed the button; one won, the others lost
C1_Witness ==
  /\ Answered = Sellers
  /\ Cardinality(Winners) = 1
  /\ Cardinality({s \in Sellers : success[s] = "fail"}) = NumSellers - 1
  /\ orders[RaceOrder].status = "preparing"

C3_TotalIsSum ==
  \A o \in DOMAIN orders : orders[o].total_amount = SumItems(orderItems[o])

\* an order with two line items of different prices that has been checked out
C3_Witness ==
  \E o \in DOMAIN orders :
    /\ Len(orderItems[o]) = 2
    /\ orders[o].status = "preparing"
    /\ orders[o].total_amount = Price(1) + Price(3)

\* C4: checkout is only legal from cart: a step changes an order's status to
\* pending only if the status was cart at the moment of the write.
C4_CheckoutOnlyFromCart ==
  [][\A o \in DOMAIN orders :
       (orders'[o].status = "pending" /\ orders[o].status # "pending")
         => orders[o].status = "cart"]_vars

\* C5: a checkout to delivery with one of the four coordinates missing fails
\* and leaves the order as it was, on the path that checks the wizard session
\* (completeDeliveryProcess) and on the path that hands the session fields to
\* processCheckout(ctx, 'delivery', details).
C5_IncompleteDeliveryFails ==
  [][\A t \in Threads :
       /\ \A u \in Customers : \A text \in TextInputs :
            (/\ TextSeatA(t, u, text)
             /\ ~(/\ getDeliverySession(u).orderId # 0
                  /\ TruthyStr(getDeliverySession(u).side)
                  /\ TruthyNum(getDeliverySession(u).sector)
                  /\ TruthyStr(getDeliverySession(u).row)))
              => (orders' = orders /\ reply' = "fail")
       /\ (/\ threads[t].pc = "write"
           /\ threads[t].op = "checkout_delivery"
           /\ ~CompleteDetails(threads[t].det)
           /\ threads'[t].pc # "write")
            => (orders' = orders /\ reply' = "fail")]_vars

\* C6: in every reachable state, an order has delivery coordinates if and only
\* if its pickup_location is delivery, and an order that has left cart with
\* pickup_location delivery has all four coordinates.
C6_CoordinatesIffDelivery ==
  \A o \in DOMAIN orders :
    /\ ~HasNoCoords(orders[o]) <=> orders[o].pickup_location = "delivery"
    /\ (orders[o].status # "cart" /\ orders[o].pickup_location = "delivery")
         => HasAllCoords(orders[o])

\* C7: a delivery checkout is all-or-nothing: once completeDeliveryProcess has
\* returned, no order that is still a cart carries delivery coordinates.
C7_DeliveryAllOrNothing ==
  \A o \in DOMAIN orders :
    (/\ orders[o].status = "cart"
     /\ \A t \in Threads : ~(threads[t].pc = "dlv_status" /\ threads[t].cart = o))
      => HasNoCoords(orders[o])

\* the outcome a cancel write must have on order o, given the statuses the
\* write accepts
CancelOutcome(o, accepted) ==
  IF o \in DOMAIN orders /\ orders[o].status \in accepted
  THEN orders'[o].status = "cancelled" /\ reply' = "ok"
  ELSE orders' = orders

\* C8: cancel is permitted only from pending or preparing.  No step moves an
\* order to cancelled from any other status; a cancel write that meets a
\* status it does not accept changes no order, and the cancel whose last write
\* does so reports failure; a cancel write that meets pending (first write) or
\* preparing (second write, or either for db.cancelOrder) moves the order to
\* cancelled and reports success.  The status that counts is the one at the
\* write, whatever it was when cancel_order checked it.
C8_CancelOnlyFromPendingOrPreparing ==
  [][/\ \A o \in DOMAIN orders :
          (orders'[o].status = "cancelled" /\ orders[o].status # "cancelled")
            => orders[o].status \in {"pending", "preparing"}
     /\ \A o \in OrderIds :
          ConfirmCancelA(o) =>
            /\ CancelOutcome(o, {"pending", "preparing"})
            /\ ~cancelOrderOk(orders, o) => reply' = "fail"
     /\ \A t \in Threads :
          /\ \A o \in OrderIds : ConfirmCancelB(t, o) => CancelOutcome(o, {"pending"})
          /\ ConfirmCancelSecond(t) =>
               /\ CancelOutcome(threads[t].cart, {"preparing"})
               /\ orders' = orders => reply' = "fail"]_vars

\* a cancel is between its two writes and the order has meanwhile moved on
\* to ready_for_pickup
C8_Witness ==
  \E t \in Threads :
    /\ threads[t].pc = "cancel2"
    /\ threads[t].cart \in DOMAIN orders
    /\ orders[threads[t].cart].status = "ready_for_pickup"

\* C9: terminal statuses are absorbing: once an order is completed or
\* cancelled, no handler step changes its status.
C9_TerminalAbsorbing ==
  [][\A o \in DOMAIN orders :
       orders[o].status \in {"completed", "cancelled"}
         => orders'[o].status = orders[o].status]_vars

\* C10: forward transitions follow the lifecycle: an order becomes
\* ready_for_pickup only directly from preparing, and completed only directly
\* from ready_for_pickup.
C10_LifecycleOrder ==
  [][\A o \in DOMAIN orders :
       /\ (orders'[o].status = "ready_for_pickup" /\ orders[o].status # "ready_for_pickup")
            => orders[o].status = "preparing"
       /\ (orders'[o].status = "completed" /\ orders[o].status # "completed")
            => orders[o].status = "ready_for_pickup"]_vars

\* C11: atomicStatusUpdate(order, expected, new) reports success if and only
\* if the order exists and its status equals expected at the call; on failure
\* the store is left as it was, on success only that order's status changes.
\* So a take_order / take_delivery that is answered with failure has changed
\* no order, and one answered with success met a pending order.
C11_CasSuccessIffExpected ==
  [][/\ \A o \in OrderIds : \A c \in CasPairs :
          LET ok == atomicStatusUpdateOk(orders, o, c[1])
              after == atomicStatusUpdate(orders, o, c[1], c[2])
          IN /\ ok <=> (o \in DOMAIN orders /\ orders[o].status = c[1])
             /\ ~ok => after = orders
             /\ ok => after = [orders EXCEPT ![o].status = c[2]]
     /\ \A o \in OrderIds :
          (TakeOrder(o) \/ TakeDelivery(o)) =>
            /\ reply' \in {"ok", "fail"}
            /\ reply' = "ok" <=> (o \in DOMAIN orders /\ orders[o].status = "pending")
            /\ reply' = "fail" => orders' = orders
            /\ reply' = "ok" => orders' = [orders EXCEPT ![o].status = "preparing"]]_vars

\* a claim has just lost: the order is already preparing and the last answer
\* was a failure, while another order is still pending
C11_Witness ==
  /\ Len(orders) = 2
  /\ orders[1].status = "preparing"
  /\ orders[2].status = "pending"
  /\ reply = "fail"

C13_AddToAbsentOrderFails ==
  [][\A o \in OrderIds : \A q \in AllQuantities : \A price \in PriceInputs :
       (StoreAddItemToOrder(o, 1, q, price) /\ o \notin DOMAIN orders)
         => (reply' = "fail" /\ orderItems' = orderItems /\ orders' = orders)]_vars

\* C14: every line item of every order has quantity >= 1 in every reachable
\* state; an add or a quantity update below 1 leaves no such line item.
C14_QuantityAtLeastOne ==
  \A o \in OrderIds : \A i \in 1..Len(orderItems[o]) : orderItems[o][i].quantity >= 1

\* C15: the price_at_time of a line item never changes once the item exists:
\* an add of the same product at another unit price, a change of the catalog
\* price and every status transition leave it as it was.
C15_PriceFrozen ==
  [][\A o \in OrderIds :
       \A i \in 1..Len(orderItems[o]) : \A j \in 1..Len(orderItems'[o]) :
         orderItems'[o][j].product_id = orderItems[o][i].product_id
           => orderItems'[o][j].price_at_time = orderItems[o][i].price_at_time]_vars

\* revision A: product 1 was added at 150, the catalog price became 200, the
\* cache was refilled with 200 and the product was added again; the order has
\* been claimed since
C15_Witness ==
  /\ rev = "A"
  /\ products[1] = 200
  /\ cache # NoCache /\ cache[1] = 200
  /\ \E o \in DOMAIN orders :
       /\ orders[o].status = "preparing"
       /\ Len(orderItems[o]) = 1
       /\ orderItems[o][1].quantity = 2
       /\ orderItems[o][1].price_at_time = 150

\* C16: the unit price frozen into a new line item is the product's catalog
\* price at the moment of the add, also when the catalog price changed while
\* the cached product list is still alive.
C16_FrozenPriceIsCatalogPrice ==
  [][\A q \in Quantities :
       (AddItemCached(1, 1, q) /\ FindItem(orderItems[threads[1].cart], 1) = {})
         => \A i \in FindItem(orderItems'[threads[1].cart], 1) :
              orderItems'[threads[1].cart][i].price_at_time = products[1]]_vars

\* C17: line items and totals change only on orders in status cart: no
\* interleaving of an add, update, remove or clear with a checkout, claim or
\* cancel of the same order changes the items or the total of an order whose
\* status at the write is not cart.
C17_ItemsChangeOnlyInCart ==
  [][\A o \in DOMAIN orders :
       (orderItems'[o] # orderItems[o] \/ orders'[o].total_amount # orders[o].total_amount)
         => orders[o].status = "cart"]_vars

\* the destination a staff role serves
Destination(role) ==
  CASE role = "seller_left" -> "left_buffer"
    [] role = "seller_right" -> "right_buffer"
    [] role = "delivery" -> "delivery"

Range(list) == {list[i] : i \in DOMAIN list}

\* the orders of a destination whose status is one of the given ones
OrdersAt(location, statuses) ==
  {o \in DOMAIN orders : orders[o].pickup_location = location /\ orders[o].status \in statuses}

OldestFirst(list) ==
  \A i, j \in DOMAIN list :
    orders[list[i]].created_at < orders[list[j]].created_at => i < j

\* C20: every list a staff query (new or active) answers with is ordered
\* oldest first by created_at, whatever the order in which the orders were
\* checked out or claimed.
C20_OldestFirst ==
  [][StaffQueries => OldestFirst(shown'.orders)]_vars

\* the active query has listed two orders of which the younger one was
\* claimed and made ready before the older one
C20_Witness ==
  /\ shown.query = "active"
  /\ shown.orders = <<1, 2>>
  /\ Len(orders) = 2
  /\ orders[1].status = "preparing"
  /\ orders[2].status = "ready_for_pickup"
  /\ orders[1].pickup_location = orders[2].pickup_location


\* account a's role serves the destination of the order
Authorized(a, orderId) ==
  /\ users[a] \in StaffRoles
  /\ orderId \in DOMAIN orders
  /\ Destination(users[a]) = orders[orderId].pickup_location

\* the order has been checked out to a destination
HasDestination(orderId) ==
  orderId \in DOMAIN orders /\ orders[orderId].pickup_location \in Locations

StatusKept(orderId) ==
  orderId \in DOMAIN orders => orders'[orderId].status = orders[orderId].status

\* C21: a claim, an advance or a staff cancel sent by an account whose role
\* does not map to the order's destination (a customer, or staff of another
\* destination) does not change the order's status.
C21_OnlyDestinationStaffActs ==
  [][\A a \in Accounts : \A o \in OrderIds :
       /\ (StaffActionBy(a, o) /\ ~Authorized(a, o) /\ HasDestination(o)) => StatusKept(o)
       /\ (ConfirmCancelBy(a, 1, o) /\ ~Authorized(a, o) /\ HasDestination(o)
             /\ orders[o].customer_id # a) => StatusKept(o)]_vars

\* C22: no action sent by a customer-role account changes an order's status
\* in any way other than checkout (cart -> pending).
C22_CustomerOnlyChecksOut ==
  [][\A a \in Accounts : \A o \in OrderIds :
       (users[a] = "customer" /\ (StaffActionBy(a, o) \/ ConfirmCancelBy(a, 1, o)))
         => StatusKept(o)]_vars

\* C23: a step of an account's own incoming action never changes the stored
\* role of an account that exists with a staff role.
C23_RoleNotChangedByHolder ==
  [][\A t \in Threads :
       (MiddlewareCreate(t) /\ users[threads[t].user] \in StaffRoles)
         => users'[threads[t].user] = users[threads[t].user]]_vars


\* position of a wizard step on side -> sector -> row -> seat -> completed
StepRank(step) ==
  CASE step = "side" -> 1 [] step = "sector" -> 2 [] step = "row" -> 3
    [] step = "seat" -> 4 [] step = "completed" -> 5

\* a side button, a sector button or a row text of account u
WizardInputA(u) ==
  \/ \E side \in SideInputs : HandleDeliverySide(u, side)
  \/ \E sector \in SectorInputs : HandleDeliverySector(u, sector)
  \/ \E text \in TextInputs : TextRowA(u, text)

\* nothing captured so far is lost or replaced
CapturedKept(s, s2) ==
  /\ s.side # None => s2.side = s.side
  /\ s.sector # Undef => s2.sector = s.sector
  /\ s.row # None => s2.row = s.row
  /\ s.seat # None => s2.seat = s.seat

\* C24: an input of the delivery wizard either leaves the session as it is
\* (it belongs to another step) or advances it by exactly one step along
\* side -> sector -> row -> seat -> completed, keeping every value captured
\* before; it never moves the session backwards or skips a step.
C24_WizardAdvancesOneStep ==
  [][\A u \in Customers :
       WizardInputA(u)
         => LET s == getDeliverySession(u)
                s2 == deliverySessions'[u]
            IN \/ s2 = s
               \/ /\ StepRank(s2.step) = StepRank(s.step) + 1
                  /\ CapturedKept(s, s2)]_vars


\* completeDeliveryProcess of account u has ended in this step: the seat text
\* was refused or the first write failed, or the status write was attempted
CompletionEnds(t, u) ==
  \/ /\ \E text \in TextInputs : TextSeatA(t, u, text)
     /\ threads'[t].pc # "dlv_status"
  \/ /\ threads[t].user = u
     /\ CompleteDeliveryStatus(t)

OrderIdInputs == 1..(MaxOrders + 1)

\* C26: for every store content, order id, expected status and new status,
\* MemoryStore.atomicStatusUpdate and the stored function atomic_status_update
\* return the same boolean and leave the same orders behind.
C26_BackendsAgreeOnCas ==
  \A o \in OrderIdInputs : \A expectedStatus \in Statuses : \A newStatus \in Statuses :
    /\ atomicStatusUpdateOk(orders, o, expectedStatus)
         = atomic_status_update_returns(orders, o, expectedStatus)
    /\ atomicStatusUpdate(orders, o, expectedStatus, newStatus)
         = atomic_status_update(orders, o, expectedStatus, newStatus)

\* a store on which the conditional write succeeds for one order and fails
\* for the other with the same arguments
C26_Witness ==
  /\ Len(orders) = 2
  /\ atomic_status_update_returns(orders, 1, "pending")
  /\ atomic_status_update(orders, 1, "pending", "preparing") # orders
  /\ ~atomic_status_update_returns(orders, 2, "pending")
  /\ reply = "fail"


\* C27: every order and every account the in-memory backend holds is
\* accepted by the durable schema: the order's status and destination pass
\* the CHECK constraints of orders, its fields fit the columns of orders,
\* and the account's role passes the CHECK constraint of profiles.
C27_SchemaAcceptsMemoryValues ==
  /\ \A o \in DOMAIN orders : OrdersCheck(orders[o]) /\ OrdersColumnsHold(orders[o])
  /\ \A a \in Accounts : users[a] # Absent => ProfilesRoleCheck(users[a])


\* C28: remove_item of a product that has no line item on the cart reports
\* success and changes neither the line items nor total_amount; after any
\* remove_item a second one for the same product changes nothing.
C28_RemoveAbsentIsNoOp ==
  [][\A t \in Threads : \A p \in ProductIds :
       RemoveItemWrite(t, p)
         => /\ FindItem(orderItems[threads[t].cart], p) = {}
                => orderItems' = orderItems /\ orders' = orders /\ reply' = "ok"
            /\ removeItemFromOrder(orderItems', threads[t].cart, p) = orderItems'
            /\ updateOrderTotal(orders', orderItems', threads[t].cart) = orders']_vars

\* remove_item_1 is about to write on a cart that holds product 3 only
C28_Witness ==
  \E t \in Threads :
    /\ threads[t].pc = "write"
    /\ threads[t].op = "remove_item"
    /\ threads[t].cart \in DOMAIN orders
    /\ orders[threads[t].cart].status = "cart"
    /\ FindItem(orderItems[threads[t].cart], 1) = {}
    /\ FindItem(orderItems[threads[t].cart], 3) # {}


\* C29: updateOrderStatus(order, new_status) without a destination sets the
\* status of an existing order to new_status and reports success whatever
\* the current status is; on a nonexistent order it reports failure and
\* creates no order.
C29_AdvanceOverwrites ==
  [][\A o \in OrderIds : \A st \in Statuses :
       StoreUpdateOrderStatus(o, st, None)
         => IF o \in DOMAIN orders
            THEN orders'[o].status = st /\ reply' = "ok"
            ELSE orders' = orders /\ reply' = "fail"]_vars

\* an advance has overwritten the status of a cart that was never checked
\* out: the order is pending without a destination
C29_Witness ==
  /\ Len(orders) = 1
  /\ orders[1].status = "pending"
  /\ orders[1].pickup_location = None
  /\ reply = "ok"

\* a claim, an advance or a cancel of order o
StatusTransition(o) ==
  \/ TakeOrder(o)
  \/ ReadyOrder(o)
  \/ CompleteOrder(o)
  \/ TakeDelivery(o)
  \/ CompleteDelivery(o)
  \/ ConfirmCancelA(o)
  \/ \E t \in Threads : ConfirmCancelB(t, o)
  \/ \E t \in Threads : threads[t].cart = o /\ ConfirmCancelSecond(t)

\* C30: a claim, an advance or a cancel changes nothing but the status of
\* its order: owner, line items, total_amount, destination and delivery
\* coordinates stay, every other order stays, and no order is created.
C30_TransitionsKeepBookkeeping ==
  [][\A o \in OrderIds :
       StatusTransition(o)
         => /\ orderItems' = orderItems
            /\ DOMAIN orders' = DOMAIN orders
            /\ \A x \in DOMAIN orders :
                 orders'[x] = IF x = o THEN [orders[x] EXCEPT !.status = orders'[x].status]
                              ELSE orders[x]]_vars

\* a delivery order with its coordinates, its line items and its total has
\* been claimed and completed
C30_Witness ==
  \E o \in DOMAIN orders :
    /\ orders[o].status = "completed"
    /\ orders[o].pickup_location = "delivery"
    /\ HasAllCoords(orders[o])
    /\ orderItems[o] # <<>>
    /\ orders[o].total_amount > 0


\* C31: no order leaves cart with zero line items: every step that takes an
\* order from cart to pending (a counter checkout, a delivery checkout, the
\* wizard's completion) leaves it with at least one line item.
C31_NoEmptyCheckout ==
  [][\A o \in DOMAIN orders :
       (orders[o].status = "cart" /\ orders'[o].status = "pending")
         => orderItems'[o] # <<>>]_vars


\* C32: confirm_cancel_<id> sent by a customer-role account that does not
\* own the order does not cancel it: the order's status stays.
C32_ConfirmCancelChecksOwner ==
  [][\A a \in Accounts : \A o \in DOMAIN orders :
       (/\ users[a] = "customer"
        /\ orders[o].customer_id # a
        /\ orders[o].status \in {"pending", "preparing"}
        /\ ConfirmCancelBy(a, 1, o))
         => StatusKept(o)]_vars


Cancellable(o) == orders[o].status \in {"pending", "preparing"}

\* C33: while the order is pending or preparing, the two-step cancel does
\* not miss it under any interleaving with claims: a first write on a pending
\* order and a second write on a pending or preparing order report success
\* and leave the order cancelled; a claim after the cancel reports failure
\* and leaves it cancelled.
C33_CancelNeverMisses ==
  [][/\ \A t \in Threads :
          /\ (ConfirmCancelB(t, RaceOrder) /\ orders[RaceOrder].status = "pending")
               => orders'[RaceOrder].status = "cancelled" /\ reply' = "ok"
          /\ (ConfirmCancelB(t, RaceOrder) /\ orders[RaceOrder].status = "preparing")
               => threads'[t].pc = "cancel2" /\ orders' = orders
          /\ (ConfirmCancelSecond(t) /\ Cancellable(RaceOrder))
               => orders'[RaceOrder].status = "cancelled" /\ reply' = "ok"
     /\ \A s \in Sellers :
          (RaceTakeOrder(s) /\ orders[RaceOrder].status = "cancelled")
            => orders'[RaceOrder].status = "cancelled" /\ success'[s] = "fail"]_vars

\* a seller claimed the order, the cancel's first write failed and its
\* second write cancelled the order; a later claim was refused
C33_Witness ==
  /\ orders[RaceOrder].status = "cancelled"
  /\ \E s \in Sellers : success[s] = "ok"
  /\ \E s \in Sellers : success[s] = "fail"
  /\ \A t \in Threads : threads[t].pc = "idle"
  /\ reply = "fail"


\* the checked-out orders of account c that are still in progress
ActiveOrdersOf(c) ==
  {o \in DOMAIN orders :
     /\ orders[o].customer_id = c
     /\ HasDestination(o)
     /\ orders[o].status \in {"pending", "preparing", "ready_for_pickup"}}

\* C34: a customer has at most one active order: while an account owns a
\* checked-out order in pending, preparing or ready_for_pickup, none of its
\* carts is checked out into pending.
C34_OneActiveOrder ==
  [][\A o \in DOMAIN orders :
       (orders[o].status = "cart" /\ orders'[o].status = "pending")
         => ActiveOrdersOf(orders[o].customer_id) = {}]_vars


\* C35: in the flag-based delivery wizard at most one of waiting_for_row
\* and waiting_for_seat is true in every reachable session state.
C35_OneWaitingFlag ==
  \A u \in DOMAIN sessions :
    ~(sessions[u].waiting_for_row /\ sessions[u].waiting_for_seat)


\* the request the function is handling is a POST whose secret passes
AcceptedPost(method, header) ==
  method = "POST" /\ (Falsy(http.secret) \/ header = http.secret)

\* C36: the webhook handler passes an update to the bot only for a POST
\* with no secret configured or with the configured secret in the header; any
\* other method is answered 405 (200 for GET in the newer handler), a POST
\* with a wrong or missing secret 401, both without the bot handling the
\* update and without a change of the order state.
C36_WebhookGate ==
  [][/\ \A method \in Methods : \A header \in HeaderValues :
          Request(method, header) =>
            /\ (http'.pc = "handleUpdate") <=> AcceptedPost(method, header)
            /\ method # "POST" =>
                 http'.status = (IF http.file = "api/bot.ts" /\ method = "GET"
                                   THEN 200 ELSE 405)
            /\ (method = "POST" /\ ~AcceptedPost(method, header)) => http'.status = 401
            /\ ~AcceptedPost(method, header) => botVars' = botVars
     /\ botVars' # botVars =>
          /\ http.pc = "handleUpdate"
          /\ AcceptedPost(http.method, http.header)]_vars

\* an order exists, and the last request, a POST with a wrong or missing
\* secret, was answered 401
C36_Witness ==
  /\ orders # <<>>
  /\ http.pc = "waiting"
  /\ http.status = 401
  /\ http.method = "POST"
  /\ http.header # http.secret

====
